---- MODULE Spec2Model ----
(***************************************************************************)
(* Model of explorer/models.py (django-sql-explorer): Query.execute /       *)
(* try_execute, QueryResult (cursor handling, header derivation, numeric   *)
(* column detection, text normalisation, display transforms) and           *)
(* ColumnSummary / ColumnStat.                                              *)
(*                                                                         *)
(* Cell values are tagged: None, int, unicode (decoded text) and str       *)
(* (byte string).  Statistic values are Python floats rounded to at most   *)
(* two decimals; they are held as integers counting hundredths             *)
(* (1.5 is 150, 4.0 is 400).                                                *)
(***************************************************************************)
EXTENDS Integers, Sequences, FiniteSets, TLC

VARIABLES
    query,          \* the Query object: [sql, params]
    conn,           \* get_connection(): what the driver offers, [NUMBER, Column]
    transforms,     \* app_settings.EXPLORER_TRANSFORMS
    pc,             \* "idle", "returned", "raised" (position of the caller)
    backend,        \* what the backend did with the statement
    cursor,         \* "none", "open", "closed"
    sent,           \* statements passed to cursor.execute, in order
    fetched,        \* the result of each cursor.fetchall() call, in order
    raised,         \* the exception that reached the caller, or NoError
    ret,            \* what the call returned: "nothing", "None", "QueryResult"
    _description,   \* QueryResult._description
    _data,          \* QueryResult._data
    _headers,       \* QueryResult._headers
    _summary,       \* QueryResult._summary ({} and [] are both <<>>)
    processCalls    \* number of process() calls made on the QueryResult

vars == <<query, conn, transforms, pc, backend, cursor, sent, fetched, raised, ret,
          _description, _data, _headers, _summary, processCalls>>

-----------------------------------------------------------------------------
(* Bounds *)

MaxRows == 2

MaxColLen == 4

MaxCell == 3

MaxProcessCalls == 3

-----------------------------------------------------------------------------
(* Cell values *)

None == [k |-> "none", v |-> 0]

IntCell(n) == [k |-> "int", v |-> n]

UnicodeCell(s) == [k |-> "unicode", v |-> s]

StrCell(s) == [k |-> "str", v |-> s]

Range(s) == {s[i] : i \in DOMAIN s}

Abs(n) == IF n < 0 THEN -n ELSE n

-----------------------------------------------------------------------------
(* ColumnStat and ColumnSummary *)

NoError == "none"

DefaultPrecision == 2

\* The number of hundredths in round(float(num/den), precision), for
\* den > 0.  Python 2 round() rounds half away from zero.
RoundedHundredths(num, den, precision) ==
    LET scale == IF precision = 0 THEN 1 ELSE 100
        mag == (2 * Abs(num) * scale + den) \div (2 * den)
        units == IF num < 0 THEN -mag ELSE mag
    IN  units * (100 \div scale)

RECURSIVE sum(_)
sum(x) == IF x = <<>> THEN 0 ELSE Head(x).v + sum(Tail(x))

RECURSIVE min(_)
min(x) ==
    IF Len(x) = 1 THEN Head(x).v
    ELSE LET m == min(Tail(x)) IN IF Head(x).v <= m THEN Head(x).v ELSE m

RECURSIVE max(_)
max(x) ==
    IF Len(x) = 1 THEN Head(x).v
    ELSE LET m == max(Tail(x)) IN IF Head(x).v >= m THEN Head(x).v ELSE m

RECURSIVE count_nulls(_)
count_nulls(x) ==
    IF x = <<>> THEN 0
    ELSE (IF Head(x) = None THEN 1 ELSE 0) + count_nulls(Tail(x))

\* The reducers of the six statistics, as the fraction [num, den] they
\* return for a non-empty sequence.
statfn(label, x) ==
    CASE label = "Sum" -> [num |-> sum(x), den |-> 1]
      [] label = "Length" -> [num |-> Len(x), den |-> 1]
      [] label = "Average" -> [num |-> sum(x), den |-> Len(x)]
      [] label = "Minimum" -> [num |-> min(x), den |-> 1]
      [] label = "Maximum" -> [num |-> max(x), den |-> 1]
      [] label = "NULLs" -> [num |-> count_nulls(x), den |-> 1]

\* ColumnSummary._stats: label, precision, handles_null.
ColumnSummary_stats ==
    << [label |-> "Sum", precision |-> DefaultPrecision, handles_null |-> FALSE],
       [label |-> "Length", precision |-> 0, handles_null |-> FALSE],
       [label |-> "Average", precision |-> DefaultPrecision, handles_null |-> FALSE],
       [label |-> "Minimum", precision |-> DefaultPrecision, handles_null |-> FALSE],
       [label |-> "Maximum", precision |-> DefaultPrecision, handles_null |-> FALSE],
       [label |-> "NULLs", precision |-> 0, handles_null |-> TRUE] >>

\* ColumnStat.__call__ without the emptiness guard: the reducer runs on
\* any sequence.
ColumnStat_call_unguarded(stat, coldata) ==
    IF coldata = <<>> /\ stat.label \in {"Average", "Minimum", "Maximum"}
    THEN [value |-> 0,
          raised |-> IF stat.label = "Average" THEN "ZeroDivisionError"
                     ELSE "ValueError"]
    ELSE IF coldata = <<>> THEN [value |-> 0, raised |-> NoError]
    ELSE LET f == statfn(stat.label, coldata)
         IN  [value |-> RoundedHundredths(f.num, f.den, stat.precision),
              raised |-> NoError]

\* ColumnStat.__call__: the value the statistic takes for coldata, or the
\* exception its reducer raises (sum() of a sequence holding text).
ColumnStat_call(stat, coldata) ==
    IF coldata = <<>> THEN [value |-> 0, raised |-> NoError]
    ELSE IF stat.label \in {"Sum", "Average"}
            /\ \E i \in DOMAIN coldata : coldata[i].k # "int"
    THEN [value |-> 0, raised |-> "TypeError"]
    ELSE LET f == statfn(stat.label, coldata)
         IN  [value |-> RoundedHundredths(f.num, f.den, stat.precision),
              raised |-> NoError]

\* A summary that drops the nulls instead of replacing them.
without_nulls_dropped(col) == SelectSeq(col, LAMBDA c : c # None)

\* map(lambda x: 0 if x is None else x, col)
without_nulls(col) ==
    [i \in DOMAIN col |-> IF col[i] = None THEN IntCell(0) ELSE col[i]]

\* Lines 203-204: the statistics are called in order, each on the raw
\* column or on the null-free one; the first exception ends the loop.
RECURSIVE run_stats(_, _, _)
run_stats(stats, col, acc) ==
    IF stats = <<>> THEN acc
    ELSE LET stat == Head(stats)
             r == ColumnStat_call(stat, IF stat.handles_null THEN col
                                        ELSE without_nulls(col))
         IN  IF r.raised # NoError THEN [acc EXCEPT !.raised = r.raised]
             ELSE run_stats(Tail(stats), col,
                            [acc EXCEPT !.stats[stat.label] = r.value])

\* ColumnSummary.__init__ and .stats: name, label -> value, and the
\* exception that ended the construction (NoError when it completed).
ColumnSummary(header, col) ==
    run_stats(ColumnSummary_stats, col,
              [name |-> header,
               stats |-> [Sum |-> 0, Length |-> 0, Average |-> 0,
                          Minimum |-> 0, Maximum |-> 0, NULLs |-> 0],
               raised |-> NoError])

-----------------------------------------------------------------------------
(* SQL text, parameters and the blacklist (explorer.utils) *)

Lit(text) == [param |-> FALSE, text |-> text]

Param(name) == [param |-> TRUE, text |-> name]

\* swap_params(sql, params): every $$name$$ token becomes the supplied
\* value, or the bare name when no value is supplied.
swap_params(sql, params) ==
    [i \in DOMAIN sql |->
        IF ~sql[i].param THEN sql[i]
        ELSE IF \E p \in params : p[1] = sql[i].text
             THEN Lit((CHOOSE p \in params : p[1] = sql[i].text)[2])
             ELSE Lit(sql[i].text)]

\* app_settings.EXPLORER_SQL_BLACKLIST
EXPLORER_SQL_BLACKLIST == {"DROP", "DELETE"}

\* utils.passes_blacklist(sql): no blacklisted word occurs in the text.
utils_passes_blacklist(sql) ==
    \A i \in DOMAIN sql : sql[i].text \notin EXPLORER_SQL_BLACKLIST

\* Query.final_sql
final_sql(q) == swap_params(q.sql, q.params)

\* Query.passes_blacklist
passes_blacklist(q) == utils_passes_blacklist(final_sql(q))

-----------------------------------------------------------------------------
(* QueryResult: headers, numeric columns, transforms *)

\* enumerate(...): the positions 1..n in order.
enumerate(n) == [i \in 1..n |-> i]

\* QueryResult._get_headers; a descriptor is <<name, type_code>>.
_get_headers(description) ==
    IF description # <<>>
    THEN [i \in DOMAIN description |-> description[i][1]]
    ELSE <<"--">>

\* conn.Database.NUMBER.values
NUMBER_values == {"NUMBER"}

\* unicode(x).isnumeric() for a cell that is no basestring: the decimal
\* form of a non-negative int is all digits; "-1" and "None" are not.
isnumeric(c) == c.k = "int" /\ c.v >= 0

isinstance_basestring(c) == c.k \in {"unicode", "str"}

\* Numeric detection from the first row only, whatever the backend offers.
_get_numerics_sniff_only(cn, description, data) ==
    IF data # <<>>
    THEN LET ixs == SelectSeq(enumerate(Len(description)),
                      LAMBDA ix : ~isinstance_basestring(data[1][ix])
                                  /\ isnumeric(data[1][ix]))
         IN  [j \in DOMAIN ixs |-> <<ixs[j], description[ixs[j]][1]>>]
    ELSE <<>>

\* QueryResult._get_numerics: <<ix, name>> of the numeric columns.
\* cn.Column says whether descriptors carry the type_code attribute.
_get_numerics(cn, description, data) ==
    IF cn.NUMBER
    THEN LET ixs == SelectSeq(enumerate(Len(description)),
                      LAMBDA ix : cn.Column
                                  /\ description[ix][2] \in NUMBER_values)
         IN  [j \in DOMAIN ixs |-> <<ixs[j], description[ixs[j]][1]>>]
    ELSE IF data # <<>>
    THEN LET ixs == SelectSeq(enumerate(Len(description)),
                      LAMBDA ix : ~isinstance_basestring(data[1][ix])
                                  /\ isnumeric(data[1][ix]))
         IN  [j \in DOMAIN ixs |-> <<ixs[j], description[ixs[j]][1]>>]
    ELSE <<>>

\* QueryResult._get_unicodes
_get_unicodes(data) ==
    IF Len(data) # 0
    THEN SelectSeq(enumerate(Len(data[1])), LAMBDA ix : data[1][ix].k = "unicode")
    ELSE <<>>

\* A lookup that returns the last position holding field.
index_last(headers, field) ==
    CHOOSE i \in DOMAIN headers :
        headers[i] = field /\ \A j \in (i + 1)..Len(headers) : headers[j] # field

\* headers.index(field): the first position holding field.
index(headers, field) ==
    CHOOSE i \in DOMAIN headers :
        headers[i] = field /\ \A j \in 1..(i - 1) : headers[j] # field

\* QueryResult._get_transforms: <<ix, template>> of the configured
\* transforms whose field is a header.
_get_transforms(cfg, headers) ==
    LET kept == SelectSeq(cfg, LAMBDA t : t[1] \in Range(headers))
    IN  [j \in DOMAIN kept |-> <<index(headers, kept[j][1]), kept[j][2]>>]

\* A column read that ignores ix.
column_first(data, ix) == [r \in DOMAIN data |-> data[r][1]]

\* QueryResult.column
column(data, ix) == [r \in DOMAIN data |-> data[r][ix]]

\* str(x) of a cell (text is ASCII).
str(c) ==
    CASE c.k = "int" -> ToString(c.v)
      [] c.k = "none" -> "None"
      [] c.k = "unicode" -> c.v
      [] c.k = "str" -> c.v

\* template.format(s) for a template with one {} placeholder.
format(t, s) == StrCell(t.pre \o s \o t.post)

\* x.encode('utf-8') of a text cell (text is ASCII).
encode(c) ==
    CASE c.k = "unicode" -> StrCell(c.v)
      [] c.k = "str" -> c

\* Lines 147-148: one row with its unicode columns encoded.
encode_row(r, unicodes) ==
    [ix \in DOMAIN r |->
        IF ix \in Range(unicodes) /\ r[ix] # None THEN encode(r[ix]) ELSE r[ix]]

\* Lines 149-150: the transforms applied to one row, in order.
RECURSIVE transform_row(_, _)
transform_row(r, ts) ==
    IF ts = <<>> THEN r
    ELSE LET ix == Head(ts)[1]
             t == Head(ts)[2]
         IN  transform_row([r EXCEPT ![ix] = format(t, str(r[ix]))], Tail(ts))

\* Lines 144-150: the rows after normalisation and transforms.
process_rows(cfg, headers, data) ==
    LET unicodes == _get_unicodes(data)
        ts == _get_transforms(cfg, headers)
    IN  [r \in DOMAIN data |-> transform_row(encode_row(data[r], unicodes), ts)]

\* Line 142: the ColumnSummary of every numeric column.
summaries(cn, description, data) ==
    LET numerics == _get_numerics(cn, description, data)
    IN  [j \in DOMAIN numerics |->
            ColumnSummary(numerics[j][2], column(data, numerics[j][1]))]

\* The first exception among the summaries, or NoError.
first_raised(sums) ==
    LET failing == {j \in DOMAIN sums : sums[j].raised # NoError}
    IN  IF failing = {} THEN NoError
        ELSE sums[CHOOSE j \in failing : \A k \in failing : j <= k].raised

published(sums) ==
    [j \in DOMAIN sums |-> [name |-> sums[j].name, stats |-> sums[j].stats]]

\* process() with the summaries taken after the rows were rewritten.
process_transform_first(cn, cfg, o) ==
    LET rows == process_rows(cfg, o._headers, o._data)
        sums == summaries(cn, o._description, rows)
    IN  IF first_raised(sums) # NoError
        THEN [o EXCEPT !._data = rows, !.raised = first_raised(sums)]
        ELSE [o EXCEPT !._summary = published(sums), !._data = rows,
                       !.raised = NoError]

\* QueryResult.process on the object o = [_description, _data, _headers,
\* _summary]; an exception of a ColumnSummary leaves the object as it was.
process_body(cn, cfg, o) ==
    LET sums == summaries(cn, o._description, o._data)
    IN  IF first_raised(sums) # NoError
        THEN [o EXCEPT !.raised = first_raised(sums)]
        ELSE [o EXCEPT !._summary = published(sums),
                       !._data = process_rows(cfg, o._headers, o._data),
                       !.raised = NoError]

-----------------------------------------------------------------------------
(* The backend and QueryResult construction *)

\* Exceptions cursor.execute and cursor.fetchall raise; the first two are
\* subclasses of django.db.DatabaseError, InterfaceError is not.
DatabaseErrors == {"ProgrammingError", "OperationalError"}

BackendErrors == DatabaseErrors \cup {"InterfaceError"}

MSG_FAILED_BLACKLIST == "Query failed the SQL blacklist."

NoObject ==
    [_description |-> <<>>, _data |-> <<>>, _headers |-> <<>>,
     _summary |-> <<>>, raised |-> NoError]

\* QueryResult.execute_query against a backend b whose execute raises
\* b.execute_error (or succeeds): the cursor's state, the exception that
\* leaves the method and the statements the cursor received.
execute_query(sql, b) ==
    IF b.execute_error = NoError
    THEN [cursor |-> "open", raised |-> NoError, sent |-> <<sql>>]
    ELSE IF b.execute_error \in DatabaseErrors
    THEN [cursor |-> "closed", raised |-> b.execute_error, sent |-> <<sql>>]
    ELSE [cursor |-> "open", raised |-> b.execute_error, sent |-> <<sql>>]

\* QueryResult.__init__: the state of the cursor when the constructor is
\* left, the exception that leaves it, and the object it built.
QueryResult_init(sql, b) ==
    LET q == execute_query(sql, b)
    IN  IF q.raised # NoError
        THEN [cursor |-> q.cursor, raised |-> q.raised, sent |-> q.sent,
              fetched |-> <<>>, obj |-> NoObject]
        ELSE IF b.fetch_error # NoError
        THEN [cursor |-> q.cursor, raised |-> b.fetch_error, sent |-> q.sent,
              fetched |-> <<>>, obj |-> NoObject]
        ELSE [cursor |-> "closed", raised |-> NoError, sent |-> q.sent,
              fetched |-> <<b.rows>>,
              obj |-> [_description |-> b.description,
                       _data |-> b.rows,
                       _headers |-> _get_headers(b.description),
                       _summary |-> <<>>,
                       raised |-> NoError]]

\* A Query that refuses to run SQL failing the blacklist.
QueryResult_if_passes(q, b) ==
    IF passes_blacklist(q) THEN QueryResult_init(final_sql(q), b)
    ELSE [cursor |-> "none", raised |-> MSG_FAILED_BLACKLIST, sent |-> <<>>,
          fetched |-> <<>>, obj |-> NoObject]

\* QueryResult(self.final_sql()) in Query.try_execute and Query.execute.
QueryResult_of(q, b) == QueryResult_init(final_sql(q), b)

-----------------------------------------------------------------------------
(* Inputs *)

Queries ==
    { [sql |-> <<Lit("SELECT"), Param("t")>>, params |-> {}],
      [sql |-> <<Lit("SELECT"), Param("t")>>, params |-> {<<"t", "DELETE">>}],
      [sql |-> <<Lit("DROP"), Param("t")>>, params |-> {<<"t", "users">>}] }

\* psycopg2 (NUMBER type set, Column descriptors), a driver with NUMBER
\* and plain tuple descriptors, sqlite3 (neither).
Connections ==
    { [NUMBER |-> TRUE, Column |-> TRUE],
      [NUMBER |-> TRUE, Column |-> FALSE],
      [NUMBER |-> FALSE, Column |-> FALSE] }

Hash == [pre |-> "#", post |-> ""]

Angle == [pre |-> "<", post |-> ">"]

TransformConfigs ==
    { <<>>,
      << <<"id", Hash>> >>,
      << <<"name", Angle>> >>,
      << <<"zz", Angle>>, <<"id", Hash>> >>,
      << <<"id", Hash>>, <<"id", Angle>> >> }

\* Result columns: name and SQL type.
Schemas ==
    { <<>>,
      << [name |-> "id", kind |-> "int"] >>,
      << [name |-> "id", kind |-> "int"], [name |-> "name", kind |-> "text"] >>,
      << [name |-> "name", kind |-> "text"], [name |-> "id", kind |-> "int"] >>,
      << [name |-> "id", kind |-> "int"], [name |-> "id", kind |-> "text"] >> }

CellsOf(kind) ==
    IF kind = "int" THEN {None, IntCell(-1), IntCell(1), IntCell(2)}
    ELSE {None, UnicodeCell("x")}

AllCells == CellsOf("int") \cup CellsOf("text")

RowsOf(schema) ==
    {r \in [1..Len(schema) -> AllCells] :
        \A i \in 1..Len(schema) : r[i] \in CellsOf(schema[i].kind)}

ResultRows(schema) ==
    IF schema = <<>> THEN {<<>>}
    ELSE UNION {[1..n -> RowsOf(schema)] : n \in 0..MaxRows}

\* cursor.description for the schema: <<name, type_code>> per column.
DescriptionOf(schema, cn) ==
    [i \in DOMAIN schema |->
        <<schema[i].name,
          IF ~cn.NUMBER THEN "None"
          ELSE IF schema[i].kind = "int" THEN "NUMBER" ELSE "STRING">>]

\* What the backend can do with one statement.
Backends(cn) ==
    {[execute_error |-> e, fetch_error |-> NoError, description |-> <<>>,
      rows |-> <<>>] : e \in BackendErrors}
    \cup {[execute_error |-> NoError, fetch_error |-> e,
           description |-> DescriptionOf(s, cn), rows |-> <<>>] :
             e \in BackendErrors, s \in Schemas}
    \cup UNION {{[execute_error |-> NoError, fetch_error |-> NoError,
                  description |-> DescriptionOf(s, cn), rows |-> rs] :
                    rs \in ResultRows(s)} : s \in Schemas}

-----------------------------------------------------------------------------
(* The state machine *)

Init ==
    /\ query \in Queries
    /\ conn \in Connections
    /\ transforms \in TransformConfigs
    /\ pc = "idle"
    /\ backend = [execute_error |-> NoError, fetch_error |-> NoError]
    /\ cursor = "none"
    /\ sent = <<>>
    /\ fetched = <<>>
    /\ raised = NoError
    /\ ret = "nothing"
    /\ _description = <<>>
    /\ _data = <<>>
    /\ _headers = <<>>
    /\ _summary = <<>>
    /\ processCalls = 0

\* Query.try_execute
try_execute ==
    /\ pc = "idle"
    /\ \E b \in Backends(conn) :
        LET i == QueryResult_of(query, b)
        IN  /\ backend' = [execute_error |-> b.execute_error,
                           fetch_error |-> b.fetch_error]
            /\ cursor' = i.cursor
            /\ sent' = sent \o i.sent
            /\ fetched' = i.fetched
            /\ raised' = i.raised
            /\ pc' = IF i.raised = NoError THEN "returned" ELSE "raised"
            /\ ret' = IF i.raised = NoError THEN "None" ELSE "nothing"
    /\ UNCHANGED <<query, conn, transforms, _description, _data, _headers,
                   _summary, processCalls>>

\* Query.execute
execute ==
    /\ pc = "idle"
    /\ \E b \in Backends(conn) :
        LET i == QueryResult_of(query, b)
            o == IF i.raised = NoError
                 THEN process_body(conn, transforms, i.obj)
                 ELSE i.obj
            e == IF i.raised # NoError THEN i.raised ELSE o.raised
        IN  /\ backend' = [execute_error |-> b.execute_error,
                           fetch_error |-> b.fetch_error]
            /\ cursor' = i.cursor
            /\ sent' = sent \o i.sent
            /\ fetched' = i.fetched
            /\ raised' = e
            /\ pc' = IF e = NoError THEN "returned" ELSE "raised"
            /\ ret' = IF e = NoError THEN "QueryResult" ELSE "nothing"
            /\ processCalls' = IF i.raised = NoError THEN 1 ELSE 0
            /\ _description' = IF e = NoError THEN o._description ELSE <<>>
            /\ _data' = IF e = NoError THEN o._data ELSE <<>>
            /\ _headers' = IF e = NoError THEN o._headers ELSE <<>>
            /\ _summary' = IF e = NoError THEN o._summary ELSE <<>>
    /\ UNCHANGED <<query, conn, transforms>>

\* QueryResult.process, called again by the holder of the result.
process ==
    /\ pc = "returned"
    /\ ret = "QueryResult"
    /\ processCalls < MaxProcessCalls
    /\ LET o == process_body(conn, transforms,
                    [_description |-> _description, _data |-> _data,
                     _headers |-> _headers, _summary |-> _summary,
                     raised |-> NoError])
       IN  /\ _data' = o._data
           /\ _summary' = o._summary
           /\ raised' = o.raised
    /\ processCalls' = processCalls + 1
    /\ UNCHANGED <<query, conn, transforms, pc, backend, cursor, sent, fetched, ret,
                   _description, _headers>>

Next == try_execute \/ execute \/ process

Spec == Init /\ [][Next]_vars

-----------------------------------------------------------------------------
(* ColumnSummary on its own: one column in, one summary out *)

SummaryCells == {None} \cup {IntCell(n) : n \in (-MaxCell)..MaxCell}

Columns == UNION {[1..n -> SummaryCells] : n \in 0..MaxColLen}

SummaryInit ==
    /\ query = [sql |-> <<Lit("SELECT"), Param("t")>>, params |-> {}]
    /\ conn = [NUMBER |-> TRUE, Column |-> TRUE]
    /\ transforms = <<>>
    /\ pc = "column"
    /\ backend = [execute_error |-> NoError, fetch_error |-> NoError]
    /\ cursor = "none"
    /\ sent = <<>>
    /\ fetched = <<>>
    /\ raised = NoError
    /\ ret = "nothing"
    /\ _description = << <<"col", "NUMBER">> >>
    /\ _headers = <<"col">>
    /\ \E col \in Columns : _data = [r \in DOMAIN col |-> <<col[r]>>]
    /\ _summary = <<>>
    /\ processCalls = 0

\* ColumnSummary(header, self.column(ix)) for the one column of _data.
summarize ==
    /\ pc = "column"
    /\ LET s == ColumnSummary(_headers[1], column(_data, 1))
       IN  /\ raised' = s.raised
           /\ _summary' = IF s.raised = NoError THEN published(<<s>>) ELSE <<>>
           /\ pc' = IF s.raised = NoError THEN "summarized" ELSE "raised"
    /\ UNCHANGED <<query, conn, transforms, backend, cursor, sent, fetched,
                   ret, _description, _data, _headers, processCalls>>

SummaryNext == summarize

SpecSummary == SummaryInit /\ [][SummaryNext]_vars

-----------------------------------------------------------------------------
(* Properties *)

\* The rows the cursor handed out, before any processing.
Raw == fetched[1]

RawColumn(ix) == [r \in DOMAIN Raw |-> Raw[r][ix]]

\* C1: every cursor acquired by a query execution is closed when control
\* is back with the caller, whether the call returned or raised.
C1_CursorClosedOnEveryExit ==
    pc \in {"returned", "raised"} => cursor = "closed"

\* C2: when the backend fails the statement, the caller gets that same
\* error, the cursor is closed, the statement was sent exactly once, no
\* rows were fetched and no QueryResult is returned.
C2_ExecuteErrorPropagatesAfterClose ==
    (pc # "idle" /\ backend.execute_error # NoError) =>
        /\ pc = "raised"
        /\ raised = backend.execute_error
        /\ cursor = "closed"
        /\ sent = <<final_sql(query)>>
        /\ fetched = <<>>
        /\ ret = "nothing"

\* The part of C2 the code keeps: a statement failed with a DatabaseError
\* reaches the caller unchanged after the cursor was closed, sent once,
\* nothing fetched, nothing returned.
DatabaseErrorPropagatesAfterClose ==
    (pc # "idle" /\ backend.execute_error \in DatabaseErrors) =>
        /\ pc = "raised"
        /\ raised = backend.execute_error
        /\ cursor = "closed"
        /\ sent = <<final_sql(query)>>
        /\ fetched = <<>>
        /\ ret = "nothing"

\* C3: the summaries process() produces are those of the raw fetched
\* columns: after execute() they are exactly the summaries of the numeric
\* columns of the rows as fetched, and no summary is ever one of
\* display-formatted cells.
C3_SummariesFromRawCells ==
    processCalls >= 1 =>
        /\ processCalls = 1 =>
              /\ pc = "returned"
              /\ _summary = published(summaries(conn, _description, Raw))
        /\ \A j \in DOMAIN _summary :
              \E ix \in DOMAIN _description :
                  /\ _description[ix][1] = _summary[j].name
                  /\ \A r \in DOMAIN Raw : Raw[r][ix].k \in {"int", "none"}
                  /\ _summary[j].stats =
                        ColumnSummary(_summary[j].name, RawColumn(ix)).stats

C3_Witness ==
    /\ processCalls = 1
    /\ _summary # <<>>
    /\ \E t \in Range(transforms) : t[1] = _summary[1].name
    /\ \E r \in DOMAIN _data : \E ix \in DOMAIN _data[r] :
          Raw[r][ix].k = "int" /\ _data[r][ix].k = "str"

\* The column of a single-column result, and that column with every null
\* replaced by 0 (as integers).
TheColumn == [r \in DOMAIN _data |-> _data[r][1]]

Zeroed == [r \in DOMAIN _data |-> IF _data[r][1] = None THEN 0 ELSE _data[r][1].v]

SumOver(f, S) ==
    LET RECURSIVE acc(_)
        acc(T) == IF T = {} THEN 0
                  ELSE LET x == CHOOSE x \in T : TRUE
                       IN  f[x] + acc(T \ {x})
    IN  acc(S)

\* C4: for a non-empty column, Sum, Length, Average, Minimum and Maximum
\* are those of the column with every null replaced by 0 (Average rounded
\* to the nearest hundredth), and NULLs is the number of null cells.
C4_StatsOverNullsAsZero ==
    (pc = "summarized" /\ _data # <<>>) =>
        LET st == _summary[1].stats
            n == Len(_data)
            total == SumOver(Zeroed, DOMAIN Zeroed)
        IN  /\ st.Sum = 100 * total
            /\ st.Length = 100 * n
            /\ 2 * Abs(st.Average * n - 100 * total) <= n
            /\ \E r \in DOMAIN Zeroed : st.Minimum = 100 * Zeroed[r]
            /\ \A r \in DOMAIN Zeroed : st.Minimum <= 100 * Zeroed[r]
            /\ \E r \in DOMAIN Zeroed : st.Maximum = 100 * Zeroed[r]
            /\ \A r \in DOMAIN Zeroed : st.Maximum >= 100 * Zeroed[r]
            /\ st.NULLs =
                  100 * Cardinality({r \in DOMAIN _data : _data[r][1] = None})

\* [1, 2, 3, None]: Sum=6, Length=4, Average=1.5, Minimum=0, Maximum=3,
\* NULLs=1.
C4_Witness ==
    /\ pc = "summarized"
    /\ TheColumn = <<IntCell(1), IntCell(2), IntCell(3), None>>
    /\ _summary[1].stats =
          [Sum |-> 600, Length |-> 400, Average |-> 150, Minimum |-> 0,
           Maximum |-> 300, NULLs |-> 100]

\* C5: for an empty column the summary is built without an exception and
\* every one of the six statistics is 0.
C5_EmptyColumnAllZero ==
    (pc # "column" /\ _data = <<>>) =>
        /\ pc = "summarized"
        /\ raised = NoError
        /\ Len(_summary) = 1
        /\ _summary[1].stats =
              [Sum |-> 0, Length |-> 0, Average |-> 0, Minimum |-> 0,
               Maximum |-> 0, NULLs |-> 0]

C5_Witness == pc = "summarized" /\ _data = <<>>

\* The positions of the descriptors typed numeric by the backend.
NumberTyped ==
    {ix \in DOMAIN _description :
        conn.Column /\ _description[ix][2] \in NUMBER_values}

\* The j-th smallest member of the set of positions K.
Nth(K, j) == CHOOSE ix \in K : Cardinality({k \in K : k < ix}) = j - 1

AllZero ==
    [Sum |-> 0, Length |-> 0, Average |-> 0, Minimum |-> 0, Maximum |-> 0,
     NULLs |-> 0]

\* C6 as stated: an empty result set yields no column summaries, whatever
\* the descriptors and the type metadata of the backend.
C6_EmptyResultNoSummaries ==
    (processCalls >= 1 /\ Raw = <<>>) => _summary = <<>>

\* C6 amended: an empty result set yields no summaries when the backend
\* has no NUMBER type set; when it has one, every NUMBER-typed descriptor
\* still gets a summary, with all six statistics 0.
C6_EmptyResultByBackend ==
    (processCalls >= 1 /\ Raw = <<>>) =>
        /\ pc = "returned"
        /\ ~conn.NUMBER => _summary = <<>>
        /\ conn.NUMBER =>
              /\ Len(_summary) = Cardinality(NumberTyped)
              /\ \A j \in DOMAIN _summary :
                    /\ _summary[j].name = _description[Nth(NumberTyped, j)][1]
                    /\ _summary[j].stats = AllZero

C6_Witness ==
    /\ processCalls >= 1
    /\ Raw = <<>>
    /\ _description # <<>>
    /\ conn.NUMBER
    /\ _summary # <<>>

\* C7: headers are the first elements of the descriptors, in order, and
\* with numeric type metadata there is one summary for exactly each
\* NUMBER-typed column, named by its header and built from its cells.
C7_HeadersAndTypedSummaries ==
    ret = "QueryResult" =>
        /\ _description # <<>> =>
              /\ Len(_headers) = Len(_description)
              /\ \A ix \in DOMAIN _description :
                    _headers[ix] = _description[ix][1]
        /\ (conn.NUMBER /\ conn.Column) =>
              /\ Len(_summary) = Cardinality(NumberTyped)
              /\ \A j \in DOMAIN _summary :
                    LET ix == Nth(NumberTyped, j)
                    IN  /\ _summary[j].name = _headers[ix]
                        /\ _summary[j].stats =
                              ColumnSummary(_headers[ix], RawColumn(ix)).stats

\* Descriptors ("id",), ("name",), two rows, "id" numeric-typed: headers
\* id, name and one summary, for id.
C7_Witness ==
    /\ ret = "QueryResult"
    /\ conn.NUMBER /\ conn.Column
    /\ _headers = <<"id", "name">>
    /\ Len(Raw) = 2
    /\ Len(_summary) = 1
    /\ _summary[1].name = "id"

\* The configured transforms that rewrite column ix: those whose header
\* first occurs at ix.
TransformsOn(ix) ==
    SelectSeq(transforms,
              LAMBDA t : /\ _headers[ix] = t[1]
                         /\ \A j \in 1..(ix - 1) : _headers[j] # t[1])

RECURSIVE Rewritten(_, _)
Rewritten(c, ts) ==
    IF ts = <<>> THEN c
    ELSE Rewritten(StrCell(Head(ts)[2].pre \o str(c) \o Head(ts)[2].post),
                   Tail(ts))

\* A fetched cell after text normalisation: decoded text becomes bytes in
\* the columns whose first-row cell is decoded text.
Normalised(r, ix) ==
    IF Raw[1][ix].k = "unicode" /\ Raw[r][ix].k = "unicode"
    THEN StrCell(Raw[r][ix].v)
    ELSE Raw[r][ix]

\* C8: after execute(), every cell of a column that a configured transform
\* names is the template applied to the cell's string form (the templates
\* in configured order when several name it), transforms naming no header
\* are skipped without error, and every other column is not rewritten by
\* a transform.
C8_TransformsRewriteTargets ==
    processCalls = 1 =>
        /\ pc = "returned"
        /\ raised = NoError
        /\ Len(_data) = Len(Raw)
        /\ \A r \in DOMAIN _data : \A ix \in DOMAIN _data[r] :
              _data[r][ix] = Rewritten(Normalised(r, ix), TransformsOn(ix))

C8_Witness ==
    /\ processCalls = 1
    /\ transforms = << <<"zz", Angle>>, <<"id", Hash>> >>
    /\ _headers = <<"id", "name">>
    /\ Len(_data) = 2
    /\ Raw[1] = <<IntCell(1), UnicodeCell("x")>>
    /\ _data[1] = <<StrCell("#1"), StrCell("x")>>
    /\ _data[2][1] = StrCell("#2")

\* C9: execute() and try_execute() send final_sql(), unaltered, to the
\* backend whether or not it passes the blacklist; a failing verdict
\* neither prevents nor aborts nor changes the execution.
C9_BlacklistAdvisory ==
    pc # "idle" =>
        /\ sent = <<final_sql(query)>>
        /\ cursor # "none"
        /\ raised # MSG_FAILED_BLACKLIST
        /\ (backend.execute_error = NoError /\ backend.fetch_error = NoError)
              => pc = "returned"

C9_Witness ==
    /\ ~passes_blacklist(query)
    /\ pc = "returned"
    /\ ret = "QueryResult"
    /\ sent = <<final_sql(query)>>
    /\ Len(_data) > 0

\* C10: once process() has computed the summaries, no later operation on
\* the QueryResult changes them.
C10_SummaryNeverChanges ==
    [][processCalls >= 1 => _summary' = _summary]_vars

====
